---- MODULE Spec2Model ----
(***************************************************************************)
(* Beatify.py: MoodITunesApp, a Tk client of the iTunes search API.        *)
(*                                                                         *)
(* The UI thread runs one callback at a time (button and listbox handlers, *)
(* and the callbacks background threads schedule with self.after(0, ...)). *)
(* Background threads (fetch_itunes, load_artwork) run concurrently with   *)
(* it.  Text that the program strips, lowercases or concatenates is a      *)
(* sequence of one-character strings; text it only passes through (record  *)
(* fields, URLs) is a string.                                              *)
(***************************************************************************)
EXTENDS Integers, Sequences, FiniteSets, TLC

\* ------------------------------------------------------------------ bounds
\* searches in flight at once
MaxInFlight == 2
\* records in one API response
MaxResults == 2
\* load_artwork threads started in one session
MaxArtFetches == 2

\* ------------------------------------------------------------------- text
IsSpace(c) == c \in {" ", "\t"}

RECURSIVE LStrip(_)
LStrip(s) == IF s # <<>> /\ IsSpace(Head(s)) THEN LStrip(Tail(s)) ELSE s

RECURSIVE RStrip(_)
RStrip(s) ==
    IF s # <<>> /\ IsSpace(s[Len(s)]) THEN RStrip(SubSeq(s, 1, Len(s) - 1)) ELSE s

\* str.strip()
Strip(s) == RStrip(LStrip(s))

LowerChar(c) ==
    CASE c = "C" -> "c" [] c = "E" -> "e" [] c = "F" -> "f" [] c = "H" -> "h"
      [] c = "R" -> "r" [] c = "S" -> "s" [] c = "W" -> "w" [] OTHER -> c

\* str.lower(), on the letters the mood list uses
Lower(s) == [i \in 1..Len(s) |-> LowerChar(s[i])]

\* --------------------------------------------------------------- REGION_MAP
RAny == <<"A", "n", "y">>
RBollywood == <<"B", "o", "l", "l", "y", "w", "o", "o", "d">>
RHollywood == <<"H", "o", "l", "l", "y", "w", "o", "o", "d">>
RPunjabi == <<"P", "u", "n", "j", "a", "b", "i">>
RHaryanvi == <<"H", "a", "r", "y", "a", "n", "v", "i">>
RHindi == <<"H", "i", "n", "d", "i">>
RInternational == <<"I", "n", "t", "e", "r", "n", "a", "t", "i", "o", "n", "a", "l">>
RLatin == <<"L", "a", "t", "i", "n">>
RKPop == <<"K", "-", "P", "o", "p">>
RRegionalIndia ==
    <<"R", "e", "g", "i", "o", "n", "a", "l", " ", "(", "I", "n", "d", "i", "a", ")">>

\* list(REGION_MAP.keys())
regions ==
    {RAny, RBollywood, RHollywood, RPunjabi, RHaryanvi, RHindi, RInternational,
     RLatin, RKPop, RRegionalIndia}

REGION_MAP(key) ==
    CASE key = RAny -> [country |-> "US", append |-> <<>>]
      [] key = RBollywood -> [country |-> "IN", append |-> RBollywood]
      [] key = RHollywood -> [country |-> "US", append |-> RHollywood]
      [] key = RPunjabi -> [country |-> "IN", append |-> RPunjabi]
      [] key = RHaryanvi -> [country |-> "IN", append |-> RHaryanvi]
      [] key = RHindi -> [country |-> "IN", append |-> RHindi]
      [] key = RInternational -> [country |-> "US", append |-> <<>>]
      [] key = RLatin -> [country |-> "US", append |-> RLatin]
      [] key = RKPop -> [country |-> "KR", append |-> RKPop]
      [] key = RRegionalIndia -> [country |-> "IN", append |-> <<>>]

\* REGION_MAP.get(region_sel, {"country": "US", "append": ""})
RegionInfo(region_sel) ==
    IF region_sel \in regions
    THEN REGION_MAP(region_sel)
    ELSE [country |-> "US", append |-> <<>>]

\* region_cb.get().strip() or "Any"
RegionSel(region_text) ==
    IF Strip(region_text) = <<>> THEN RAny ELSE Strip(region_text)

\* the term on_get_songs builds from the stripped custom text, the stripped and
\* lowercased mood, and the region's keyword; <<>> custom and <<>> mood is the
\* "No input" case, which builds no term
SearchTermNoStrip(custom, mood_sel, append) ==
    IF custom # <<>>
    THEN custom \o <<" ">> \o append
    ELSE mood_sel \o <<" ", "s", "o", "n", "g", " ">> \o append

SearchTerm(custom, mood_sel, append) ==
    IF custom # <<>>
    THEN Strip(custom \o <<" ">> \o append)
    ELSE Strip(mood_sel \o <<" ", "s", "o", "n", "g", " ">> \o append)

\* ---------------------------------------------------------------- records
\* a key the record lacks: dict.get returns None (or the given default)
Absent == "<absent>"

\* Python truth of a field value: None and "" are false
Truthy(v) == v # Absent /\ v # ""

Get(item, key, default) == IF item[key] = Absent THEN default ELSE item[key]

\* song records the API can return (same shape as the API response)
Rec1 ==
    [trackName |-> "T1", artistName |-> "A1", collectionName |-> "Album1",
     previewUrl |-> "p1", artworkUrl100 |-> "u1", artworkUrl60 |-> "u1s",
     trackViewUrl |-> "v1", collectionViewUrl |-> "cv1"]

Rec2 ==
    [trackName |-> "T2", artistName |-> "A2", collectionName |-> "",
     previewUrl |-> Absent, artworkUrl100 |-> Absent, artworkUrl60 |-> "u2",
     trackViewUrl |-> "", collectionViewUrl |-> "cv2"]

Rec3 ==
    [trackName |-> Absent, artistName |-> Absent, collectionName |-> Absent,
     previewUrl |-> "", artworkUrl100 |-> "", artworkUrl60 |-> Absent,
     trackViewUrl |-> Absent, collectionViewUrl |-> Absent]

Catalog == {Rec1, Rec2, Rec3}

\* the store's hits, in its order
Feed == <<Rec1, Rec2, Rec3, Rec1>>

\* data.get("results", []) of a response: up to MaxResults consecutive hits
Responses ==
    UNION {{SubSeq(Feed, i, i + n - 1) : i \in 1..(Len(Feed) - n + 1)} :
              n \in 0..MaxResults}

\* item.get("artworkUrl100") or item.get("artworkUrl60")
ArtworkOf(item) ==
    IF Truthy(item.artworkUrl100) THEN item.artworkUrl100 ELSE item.artworkUrl60

ArtUrls == {ArtworkOf(r) : r \in {c \in Catalog : Truthy(ArtworkOf(c))}}

\* item.get("trackViewUrl") or item.get("collectionViewUrl")
ItunesLinkSwapped(item) ==
    IF Truthy(item.collectionViewUrl) THEN item.collectionViewUrl ELSE item.trackViewUrl

ItunesLink(item) ==
    IF Truthy(item.trackViewUrl) THEN item.trackViewUrl ELSE item.collectionViewUrl

\* the listbox line update_results builds for one record
ListLine(r) ==
    <<Get(r, "trackName", "Unknown"), " - ", Get(r, "artistName", "")>>
    \o (IF Truthy(Get(r, "collectionName", ""))
        THEN <<"  (", r.collectionName, ")">>
        ELSE <<>>)

\* the listbox after update_results: cleared, then one line per record
ListLinesSkipUnnamed(results) ==
    LET RECURSIVE lines(_)
        lines(rs) ==
            IF rs = <<>> THEN <<>>
            ELSE IF Head(rs).trackName = Absent THEN lines(Tail(rs))
            ELSE <<ListLine(Head(rs))>> \o lines(Tail(rs))
    IN lines(results)

ListLines(results) == [i \in 1..Len(results) |-> ListLine(results[i])]

\* ------------------------------------------------------------------ state
VARIABLES
    current_results,   \* self.current_results: the records of the last response applied
    artwork_cache,     \* self.artwork_cache: the URLs it holds a decoded image for
    song_listbox,      \* the lines of the listbox
    selection,         \* song_listbox.curselection(): 0 is none, else the 1-based row
    btn_get,           \* state of the Search button
    status_var,        \* the status line
    track_var,         \* the track label
    artist_var,        \* the artist label
    artwork_label,     \* image (the URL it was decoded from, "" is none) and text
    PIL_AVAILABLE,     \* whether the PIL import succeeded
    searches,          \* the searches in flight, by slot
    art_threads,       \* the running load_artwork threads
    after_queue,       \* callbacks scheduled with self.after(0, ...), oldest first
    artRequests,       \* per artwork URL, the HTTP requests load_artwork has issued
    artSpawned,        \* load_artwork threads started so far
    observing,         \* whether a search records what is displayed and which
                       \* searches are in flight when it starts
    lastOp,            \* the handler or thread step that ran last
    lastWrites,        \* which of current_results / artwork_cache it assigned
    dialogs,           \* the message boxes it showed (titles)
    opened             \* the browser tabs it opened

vars ==
    <<current_results, artwork_cache, song_listbox, selection, btn_get, status_var,
      track_var, artist_var, artwork_label, PIL_AVAILABLE, searches, art_threads,
      after_queue, artRequests, artSpawned, observing, lastOp, lastWrites, dialogs,
      opened>>

\* the widgets and fields a UI callback may touch besides the status line
display ==
    <<current_results, artwork_cache, song_listbox, selection, btn_get, track_var,
      artist_var, artwork_label>>

background == <<searches, art_threads, after_queue, artRequests, artSpawned>>

\* fixed for the run
config == <<PIL_AVAILABLE, observing>>

\* a status line: the template used and the values formatted into it
Status(text, term, region, country, track, n) ==
    [text |-> text, term |-> term, region |-> region, country |-> country,
     track |-> track, n |-> n]

\* what was displayed when a search was started
NoSnapshot ==
    [taken |-> FALSE, results |-> <<>>, listbox |-> <<>>, sel |-> 0,
     label |-> [image |-> "", text |-> ""], cache |-> {}]

Snapshot ==
    [taken |-> TRUE, results |-> current_results, listbox |-> song_listbox,
     sel |-> selection, label |-> artwork_label, cache |-> artwork_cache]

\* a slot no search uses
FreeSlot ==
    [pc |-> "free", term |-> <<>>, country |-> "", reqs |-> 0, outcome |-> "none",
     before |-> NoSnapshot, older |-> {}, superseded |-> FALSE]

SearchIds == 1..MaxInFlight

\* the handler that ran last, what it showed, opened and assigned
Did(op, shown, tabs, writes) ==
    /\ lastOp' = op
    /\ dialogs' = shown
    /\ opened' = tabs
    /\ lastWrites' = writes

Init ==
    /\ current_results = <<>>
    /\ artwork_cache = {}
    /\ song_listbox = <<>>
    /\ selection = 0
    /\ btn_get = "normal"
    /\ status_var = Status("Select a mood", <<>>, <<>>, "", "", 0)
    /\ track_var = ""
    /\ artist_var = ""
    /\ artwork_label = [image |-> "", text |-> ""]
    /\ PIL_AVAILABLE \in BOOLEAN
    /\ searches = [sid \in SearchIds |-> FreeSlot]
    /\ art_threads = <<>>
    /\ after_queue = <<>>
    /\ artRequests = [u \in ArtUrls |-> 0]
    /\ artSpawned = 0
    /\ observing \in BOOLEAN
    /\ lastOp = "__init__"
    /\ lastWrites = {}
    /\ dialogs = <<>>
    /\ opened = <<>>

\* ------------------------------------------------------------ on_get_songs
\* the slot of the next search, MaxInFlight + 1 when all are in use
NextSlot ==
    IF \E sid \in SearchIds : searches[sid].pc = "free"
    THEN CHOOSE sid \in SearchIds :
            /\ searches[sid].pc = "free"
            /\ \A t \in SearchIds : searches[t].pc = "free" => sid <= t
    ELSE MaxInFlight + 1

\* on_get_songs disabling the button before it looks at its inputs
on_get_songs_disabling_first(custom_text, mood_text, region_text) ==
    LET custom == Strip(custom_text)
        mood_sel == Lower(Strip(mood_text))
        region_sel == RegionSel(region_text)
        region_info == RegionInfo(region_sel)
        term == SearchTerm(custom, mood_sel, region_info.append)
    IN
    IF custom = <<>> /\ mood_sel = <<>>
    THEN /\ Did("on_get_songs", <<"No input">>, <<>>, {})
         /\ btn_get' = "disabled"
         /\ UNCHANGED <<current_results, artwork_cache, song_listbox, selection,
                        track_var, artist_var, artwork_label, status_var, config,
                        background>>
    ELSE /\ NextSlot \in SearchIds
         /\ status_var' = Status("Searching iTunes for", term, region_sel, "", "", 0)
         /\ btn_get' = "disabled"
         /\ searches' =
                [searches EXCEPT ![NextSlot] =
                    [pc |-> "fetching", term |-> term,
                     country |-> region_info.country, reqs |-> 0,
                     outcome |-> "none",
                     before |-> IF observing THEN Snapshot ELSE NoSnapshot,
                     \* the searches started earlier and still in flight
                     older |-> IF observing
                               THEN {t \in SearchIds : searches[t].pc # "free"}
                               ELSE {},
                     superseded |-> FALSE]]
         /\ Did("on_get_songs", <<>>, <<>>, {})
         /\ UNCHANGED <<current_results, artwork_cache, song_listbox, selection,
                        track_var, artist_var, artwork_label, config,
                        art_threads, after_queue, artRequests, artSpawned>>

\* on_get_songs with the given contents of the custom entry, the mood box and
\* the region box
on_get_songs(custom_text, mood_text, region_text) ==
    LET custom == Strip(custom_text)
        mood_sel == Lower(Strip(mood_text))
        region_sel == RegionSel(region_text)
        region_info == RegionInfo(region_sel)
        term == SearchTerm(custom, mood_sel, region_info.append)
    IN
    IF custom = <<>> /\ mood_sel = <<>>
    THEN /\ Did("on_get_songs", <<"No input">>, <<>>, {})
         /\ UNCHANGED <<display, status_var, config, background>>
    ELSE /\ NextSlot \in SearchIds
         /\ status_var' = Status("Searching iTunes for", term, region_sel, "", "", 0)
         /\ btn_get' = "disabled"
         /\ searches' =
                [searches EXCEPT ![NextSlot] =
                    [pc |-> "fetching", term |-> term,
                     country |-> region_info.country, reqs |-> 0,
                     outcome |-> "none",
                     before |-> IF observing THEN Snapshot ELSE NoSnapshot,
                     \* the searches started earlier and still in flight
                     older |-> IF observing
                               THEN {t \in SearchIds : searches[t].pc # "free"}
                               ELSE {},
                     superseded |-> FALSE]]
         /\ Did("on_get_songs", <<>>, <<>>, {})
         /\ UNCHANGED <<current_results, artwork_cache, song_listbox, selection,
                        track_var, artist_var, artwork_label, config,
                        art_threads, after_queue, artRequests, artSpawned>>

\* the Search button's command: a disabled button does not invoke it
ClickSearch(custom_text, mood_text, region_text) ==
    /\ btn_get = "normal"
    /\ on_get_songs(custom_text, mood_text, region_text)

\* <Return> in the custom entry: bound whatever the button's state
PressReturn(custom_text, mood_text, region_text) ==
    on_get_songs(custom_text, mood_text, region_text)

\* ------------------------------------------------------------ fetch_itunes
UpdateCallback(sid, results) ==
    [cb |-> "update_results", sid |-> sid, results |-> results,
     term |-> searches[sid].term, country |-> searches[sid].country, url |-> ""]

FailedCallback(sid) ==
    [cb |-> "fetch_failed", sid |-> sid, results |-> <<>>, term |-> <<>>,
     country |-> "", url |-> ""]

\* the callbacks fetch_itunes schedules: update_results with the parsed results,
\* or, when the request or the parsing raised, fetch_failed and nothing else
FetchCallbacks(sid, ok, results) ==
    IF ok THEN <<UpdateCallback(sid, results)>> ELSE <<FailedCallback(sid)>>

\* the thread of search sid: one GET, then one self.after
fetch_itunes(sid, ok, results) ==
    /\ searches[sid].pc = "fetching"
    /\ searches' =
           [searches EXCEPT ![sid].pc = "queued", ![sid].reqs = @ + 1,
                            ![sid].outcome = IF ok THEN "ok" ELSE "error"]
    /\ after_queue' = after_queue \o FetchCallbacks(sid, ok, results)
    /\ Did("fetch_itunes", <<>>, <<>>, {})
    /\ UNCHANGED <<display, status_var, config, art_threads, artRequests,
                   artSpawned>>

\* ------------------------------------------------- callbacks of a search
\* the searches once a callback of search sid has run
Finished(sid) ==
    [t \in SearchIds |->
        IF t = sid THEN FreeSlot ELSE [searches[t] EXCEPT !.older = @ \ {sid}]]

\* the searches once update_results has run for search sid: the searches started
\* before it and still in flight have been overtaken by it
Applied(sid) ==
    [t \in SearchIds |->
        IF t = sid THEN FreeSlot
        ELSE [searches[t] EXCEPT !.older = @ \ {sid},
                                 !.superseded = @ \/ t \in searches[sid].older]]

fetch_failed_clearing(c) ==
    /\ btn_get' = "normal"
    /\ status_var' = Status("Search failed.", <<>>, <<>>, "", "", 0)
    /\ current_results' = <<>>
    /\ song_listbox' = <<>>
    /\ selection' = 0
    /\ searches' = Finished(c.sid)
    /\ Did("fetch_failed", <<"Search failed">>, <<>>, {"current_results"})
    /\ UNCHANGED <<artwork_cache, track_var, artist_var, artwork_label, config,
                   art_threads, artRequests, artSpawned>>

\* the callback of line 165 runs after the except block of fetch_itunes has
\* unbound ex: the lambda raises NameError before it calls fetch_failed, Tk
\* reports the exception and nothing else happens
fetch_failed_unbound(c) ==
    /\ searches' = Finished(c.sid)
    /\ Did("fetch_failed unbound", <<>>, <<>>, {})
    /\ UNCHANGED <<display, status_var, config, art_threads, artRequests,
                   artSpawned>>

\* fetch_failed, when the callback runs while ex is still bound
fetch_failed(c) ==
    /\ btn_get' = "normal"
    /\ status_var' = Status("Search failed.", <<>>, <<>>, "", "", 0)
    /\ searches' = Finished(c.sid)
    /\ Did("fetch_failed", <<"Search failed">>, <<>>, {})
    /\ UNCHANGED <<current_results, artwork_cache, song_listbox, selection,
                   track_var, artist_var, artwork_label, config, art_threads,
                   artRequests, artSpawned>>

update_results(c) ==
    /\ btn_get' = "normal"
    /\ current_results' = c.results
    /\ song_listbox' = ListLines(c.results)
    \* deleting every line leaves nothing selected
    /\ selection' = 0
    /\ artwork_label' = [image |-> "", text |-> ""]
    /\ artwork_cache' = {}
    /\ status_var' =
           IF c.results = <<>>
           THEN Status("No results from iTunes for", c.term, <<>>, c.country, "", 0)
           ELSE Status("Showing results for", c.term, <<>>, c.country, "",
                       Len(c.results))
    /\ searches' = Applied(c.sid)
    /\ Did("update_results", <<>>, <<>>, {"current_results", "artwork_cache"})
    /\ UNCHANGED <<track_var, artist_var, config, art_threads, artRequests,
                   artSpawned>>

\* ---------------------------------------------------- on_selection_changed
\* on_selection_changed when curselection() is sel
on_selection_changed(sel) ==
    IF sel = 0
    THEN /\ track_var' = ""
         /\ artist_var' = ""
         /\ artwork_label' = [image |-> "", text |-> ""]
         /\ UNCHANGED <<art_threads, artSpawned>>
    ELSE IF sel > Len(current_results)
    THEN UNCHANGED <<track_var, artist_var, artwork_label, art_threads, artSpawned>>
    ELSE LET item == current_results[sel]
             artwork == ArtworkOf(item)
         IN
         /\ track_var' = Get(item, "trackName", "")
         /\ artist_var' = Get(item, "artistName", "")
         /\ IF Truthy(artwork) /\ PIL_AVAILABLE
            THEN IF artwork \in artwork_cache
                 THEN /\ artwork_label' = [image |-> artwork, text |-> ""]
                      /\ UNCHANGED <<art_threads, artSpawned>>
                 ELSE \* threading.Thread(target=self.load_artwork, args=(artwork,))
                      /\ artSpawned < MaxArtFetches
                      /\ art_threads' =
                             Append(art_threads, [url |-> artwork, pc |-> "get"])
                      /\ artSpawned' = artSpawned + 1
                      /\ UNCHANGED artwork_label
            ELSE /\ IF ~PIL_AVAILABLE /\ Truthy(artwork)
                    THEN artwork_label' =
                             [artwork_label EXCEPT !.text = "[Install Pillow]"]
                    ELSE artwork_label' = [image |-> "", text |-> ""]
                 /\ UNCHANGED <<art_threads, artSpawned>>

\* the user picks row i of the listbox: <<ListboxSelect>>
SelectSong(i) ==
    /\ i \in 1..Len(song_listbox)
    /\ selection' = i
    /\ on_selection_changed(i)
    /\ Did("on_selection_changed", <<>>, <<>>, {})
    /\ UNCHANGED <<current_results, artwork_cache, song_listbox, btn_get, status_var,
                   config, searches, after_queue, artRequests>>

\* the listbox loses the selection to another widget: <<ListboxSelect>> with
\* nothing selected
LoseSelection ==
    /\ selection # 0
    /\ selection' = 0
    /\ on_selection_changed(0)
    /\ Did("on_selection_changed", <<>>, <<>>, {})
    /\ UNCHANGED <<current_results, artwork_cache, song_listbox, btn_get, status_var,
                   config, searches, after_queue, artRequests>>

\* ------------------------------------------------------------ load_artwork
Without(s, i) == SubSeq(s, 1, i - 1) \o SubSeq(s, i + 1, Len(s))

ArtworkCallback(url) ==
    [cb |-> "apply_artwork", sid |-> 0, results |-> <<>>, term |-> <<>>,
     country |-> "", url |-> url]

\* thread i: the GET and the decoding succeed, and it stores the image in the
\* cache (line 231, on the background thread)
load_artwork_store(i) ==
    /\ i \in 1..Len(art_threads)
    /\ art_threads[i].pc = "get"
    /\ artRequests' = [artRequests EXCEPT ![art_threads[i].url] = @ + 1]
    /\ artwork_cache' = artwork_cache \cup {art_threads[i].url}
    /\ art_threads' = [art_threads EXCEPT ![i].pc = "after"]
    /\ Did("load_artwork", <<>>, <<>>, {"artwork_cache"})
    /\ UNCHANGED <<current_results, song_listbox, selection, btn_get, status_var,
                   track_var, artist_var, artwork_label, config, searches,
                   after_queue, artSpawned>>

\* thread i: then schedules _apply_artwork_if_selected and ends
load_artwork_after(i) ==
    /\ i \in 1..Len(art_threads)
    /\ art_threads[i].pc = "after"
    /\ after_queue' = Append(after_queue, ArtworkCallback(art_threads[i].url))
    /\ art_threads' = Without(art_threads, i)
    /\ Did("load_artwork", <<>>, <<>>, {})
    /\ UNCHANGED <<display, status_var, config, searches, artRequests,
                   artSpawned>>

\* thread i: the GET, raise_for_status or the decoding raises: except: pass
load_artwork_except_caching(i) ==
    /\ i \in 1..Len(art_threads)
    /\ art_threads[i].pc = "get"
    /\ artRequests' = [artRequests EXCEPT ![art_threads[i].url] = @ + 1]
    /\ artwork_cache' = artwork_cache \cup {art_threads[i].url}
    /\ art_threads' = Without(art_threads, i)
    /\ Did("load_artwork except", <<>>, <<>>, {"artwork_cache"})
    /\ UNCHANGED <<current_results, song_listbox, selection, btn_get, status_var,
                   track_var, artist_var, artwork_label, config, searches,
                   after_queue, artSpawned>>

load_artwork_except(i) ==
    /\ i \in 1..Len(art_threads)
    /\ art_threads[i].pc = "get"
    /\ artRequests' = [artRequests EXCEPT ![art_threads[i].url] = @ + 1]
    /\ art_threads' = Without(art_threads, i)
    /\ Did("load_artwork except", <<>>, <<>>, {})
    /\ UNCHANGED <<display, status_var, config, searches, after_queue,
                   artSpawned>>

\* _apply_artwork_if_selected showing the image for whatever song is selected
apply_artwork_whatever_selected(c) ==
    /\ IF /\ selection # 0
          /\ selection <= Len(current_results)
          /\ c.url \in artwork_cache
       THEN artwork_label' = [image |-> c.url, text |-> ""]
       ELSE UNCHANGED artwork_label
    /\ Did("apply_artwork", <<>>, <<>>, {})
    /\ UNCHANGED <<current_results, artwork_cache, song_listbox, selection, btn_get,
                   status_var, track_var, artist_var, config, searches,
                   art_threads, artRequests, artSpawned>>

apply_artwork_if_selected(c) ==
    /\ IF /\ selection # 0
          /\ selection <= Len(current_results)
          /\ ArtworkOf(current_results[selection]) = c.url
          /\ c.url \in artwork_cache
       THEN artwork_label' = [image |-> c.url, text |-> ""]
       ELSE UNCHANGED artwork_label
    /\ Did("apply_artwork", <<>>, <<>>, {})
    /\ UNCHANGED <<current_results, artwork_cache, song_listbox, selection, btn_get,
                   status_var, track_var, artist_var, config, searches,
                   art_threads, artRequests, artSpawned>>

\* the event loop runs the oldest scheduled callback; the thread that scheduled
\* the callback of a failed search unbinds ex (the end of its except block)
\* while the event loop gets to the callback, and either may come first
RunCallback ==
    /\ after_queue # <<>>
    /\ after_queue' = Tail(after_queue)
    /\ LET c == Head(after_queue)
       IN CASE c.cb = "update_results" -> update_results(c)
            [] c.cb = "fetch_failed" -> fetch_failed(c) \/ fetch_failed_unbound(c)
            [] c.cb = "apply_artwork" -> apply_artwork_if_selected(c)

\* ------------------------------------------------- actions on the selection
Tab(site, url, query) == [site |-> site, url |-> url, query |-> query]

\* get_selected_item returns a record
HasSelectedItem == selection # 0 /\ selection <= Len(current_results)

\* a handler that only shows a message, or does nothing
OnlyShows(op, shown) ==
    /\ Did(op, shown, <<>>, {})
    /\ UNCHANGED <<display, status_var, config, background>>

\* a handler that opens tabs and sets the status line
Opens(op, tabs, status) ==
    /\ status_var' = status
    /\ Did(op, <<>>, tabs, {})
    /\ UNCHANGED <<display, config, background>>

play_preview_unless_none ==
    IF ~HasSelectedItem
    THEN OnlyShows("play_preview", <<"No selection">>)
    ELSE LET item == current_results[selection]
         IN IF item.previewUrl = Absent
            THEN OnlyShows("play_preview", <<"No preview available">>)
            ELSE Opens("play_preview", <<Tab("browser", item.previewUrl, <<>>)>>,
                       Status("Playing preview for", <<>>, <<>>, "",
                              Get(item, "trackName", ""), 0))

play_preview ==
    IF ~HasSelectedItem
    THEN OnlyShows("play_preview", <<"No selection">>)
    ELSE LET item == current_results[selection]
         IN IF ~Truthy(item.previewUrl)
            THEN OnlyShows("play_preview", <<"No preview available">>)
            ELSE Opens("play_preview", <<Tab("browser", item.previewUrl, <<>>)>>,
                       Status("Playing preview for", <<>>, <<>>, "",
                              Get(item, "trackName", ""), 0))

open_itunes ==
    IF ~HasSelectedItem
    THEN OnlyShows("open_itunes", <<"No selection">>)
    ELSE LET item == current_results[selection]
         IN IF ~Truthy(ItunesLink(item))
            THEN OnlyShows("open_itunes", <<"No link">>)
            ELSE Opens("open_itunes", <<Tab("browser", ItunesLink(item), <<>>)>>,
                       Status("Opened iTunes page for", <<>>, <<>>, "",
                              Get(item, "trackName", ""), 0))

\* open_youtube_spotify searching for an empty title when nothing is selected
open_youtube_spotify_unselected ==
    IF ~HasSelectedItem
    THEN Opens("open_youtube_spotify",
               <<Tab("youtube", "", <<"", " ", "">>),
                 Tab("spotify", "", <<"", " ", "">>)>>,
               Status("Opened YouTube and Spotify searches for", <<>>, <<>>, "",
                      "", 0))
    ELSE LET item == current_results[selection]
             title == Get(item, "trackName", "")
             artist == Get(item, "artistName", "")
             query == <<title, " ", artist>>
         IN Opens("open_youtube_spotify",
                  <<Tab("youtube", "", query), Tab("spotify", "", query)>>,
                  Status("Opened YouTube and Spotify searches for", <<>>, <<>>, "",
                         title, 0))

open_youtube_spotify ==
    IF ~HasSelectedItem
    THEN OnlyShows("open_youtube_spotify", <<"No selection">>)
    ELSE LET item == current_results[selection]
             title == Get(item, "trackName", "")
             artist == Get(item, "artistName", "")
             query == <<title, " ", artist>>
         IN Opens("open_youtube_spotify",
                  <<Tab("youtube", "", query), Tab("spotify", "", query)>>,
                  Status("Opened YouTube and Spotify searches for", <<>>, <<>>, "",
                         title, 0))

\* ---------------------------------------------------------- specification
\* what the user has in the custom entry, the mood box and the region box
Customs == {<<>>, <<" ", "l", "o", "f", "i", " ">>}

MoodSels == {<<>>, <<"H", "a", "p", "p", "y">>}

RegionSels == {RKPop}

\* the empty response and the responses of MaxResults records
FullResponses == {r \in Responses : Len(r) \in {0, MaxResults}}

\* the whole program
Next ==
    \/ \E c \in Customs, m \in MoodSels, r \in RegionSels : ClickSearch(c, m, r)
    \/ \E c \in Customs, m \in MoodSels, r \in RegionSels : PressReturn(c, m, r)
    \/ \E sid \in SearchIds, results \in Responses : fetch_itunes(sid, TRUE, results)
    \/ \E sid \in SearchIds : fetch_itunes(sid, FALSE, <<>>)
    \/ RunCallback
    \/ \E i \in 1..MaxResults : SelectSong(i)
    \/ LoseSelection
    \/ \E i \in 1..MaxArtFetches : load_artwork_store(i)
    \/ \E i \in 1..MaxArtFetches : load_artwork_except(i)
    \/ \E i \in 1..MaxArtFetches : load_artwork_after(i)
    \/ play_preview
    \/ open_itunes
    \/ open_youtube_spotify

Spec == Init /\ [][Next]_vars

\* Searches alone, overlapping ones included.
NextSearch ==
    \/ \E c \in Customs, r \in RegionSels : ClickSearch(c, <<>>, r)
    \/ \E c \in Customs, r \in RegionSels : PressReturn(c, <<>>, r)
    \/ \E sid \in SearchIds, results \in Responses : fetch_itunes(sid, TRUE, results)
    \/ \E sid \in SearchIds : fetch_itunes(sid, FALSE, <<>>)
    \/ RunCallback

InitSearch == Init /\ PIL_AVAILABLE = FALSE /\ observing = FALSE

SpecSearch == InitSearch /\ [][NextSearch]_vars

\* Artwork loading: searches started with the button (one at a time), the
\* selection and the load_artwork threads.
NextArtwork ==
    \/ \E c \in Customs \ {<<>>}, r \in RegionSels : ClickSearch(c, <<>>, r)
    \/ \E sid \in SearchIds, results \in FullResponses :
          fetch_itunes(sid, TRUE, results)
    \/ \E sid \in SearchIds : fetch_itunes(sid, FALSE, <<>>)
    \/ RunCallback
    \/ \E i \in 1..MaxResults : SelectSong(i)
    \/ LoseSelection
    \/ \E i \in 1..MaxArtFetches : load_artwork_store(i)
    \/ \E i \in 1..MaxArtFetches : load_artwork_except(i)
    \/ \E i \in 1..MaxArtFetches : load_artwork_after(i)

InitArtwork == Init /\ PIL_AVAILABLE = TRUE /\ observing = FALSE

SpecArtwork == InitArtwork /\ [][NextArtwork]_vars

\* The same with what is displayed recorded at the start of each search, and
\* every artwork request succeeding.
NextFrame ==
    \/ \E c \in Customs \ {<<>>}, r \in RegionSels : ClickSearch(c, <<>>, r)
    \/ \E sid \in SearchIds, results \in FullResponses :
          fetch_itunes(sid, TRUE, results)
    \/ \E sid \in SearchIds : fetch_itunes(sid, FALSE, <<>>)
    \/ RunCallback
    \/ \E i \in 1..MaxResults : SelectSong(i)
    \/ \E i \in 1..MaxArtFetches : load_artwork_store(i)
    \/ \E i \in 1..MaxArtFetches : load_artwork_after(i)

InitFrame == Init /\ PIL_AVAILABLE = TRUE /\ observing = TRUE

SpecFrame == InitFrame /\ [][NextFrame]_vars

\* The handlers that act on the selected song; searches started with the
\* button, no Pillow.
NextSelected ==
    \/ \E c \in Customs, r \in RegionSels : ClickSearch(c, <<>>, r)
    \/ \E sid \in SearchIds, results \in Responses : fetch_itunes(sid, TRUE, results)
    \/ \E sid \in SearchIds : fetch_itunes(sid, FALSE, <<>>)
    \/ RunCallback
    \/ \E i \in 1..MaxResults : SelectSong(i)
    \/ LoseSelection
    \/ play_preview
    \/ open_itunes
    \/ open_youtube_spotify

InitSelected == Init /\ PIL_AVAILABLE = FALSE /\ observing = FALSE

SpecSelected == InitSelected /\ [][NextSelected]_vars

\* every HTTP request of a search terminates, by a response, an error or the
\* timeout of 12 s
RequestEnds(sid) ==
    \/ \E results \in Responses : fetch_itunes(sid, TRUE, results)
    \/ fetch_itunes(sid, FALSE, <<>>)

\* and the event loop keeps running the callbacks scheduled with self.after
Fairness ==
    /\ \A sid \in SearchIds : WF_vars(RequestEnds(sid))
    /\ WF_vars(RunCallback)

\* Searches alone, under these assumptions.
SpecLive == InitSearch /\ [][NextSearch]_vars /\ Fairness

\* Overlapping searches, each recording the searches started before it.
NextOrder ==
    \/ \E c \in Customs \ {<<>>}, r \in RegionSels : ClickSearch(c, <<>>, r)
    \/ \E c \in Customs \ {<<>>}, r \in RegionSels : PressReturn(c, <<>>, r)
    \/ \E sid \in SearchIds, results \in FullResponses :
          fetch_itunes(sid, TRUE, results)
    \/ \E sid \in SearchIds : fetch_itunes(sid, FALSE, <<>>)
    \/ RunCallback

InitOrder == Init /\ PIL_AVAILABLE = FALSE /\ observing = TRUE

SpecOrder == InitOrder /\ [][NextOrder]_vars

\* Query building: on_get_songs on every combination of the entry's text, the
\* mood box's value and the region box's value; the searches stay in flight.
AllCustoms == {<<>>, <<" ">>, <<" ", "l", "o", " ", "f", "i", " ">>}

\* nothing chosen, or a value of the mood box: m.capitalize() of a mood
AllMoods == {<<>>, <<"H", "a", "p", "p", "y">>}

NextQuery ==
    \/ \E c \in AllCustoms, m \in AllMoods, r \in regions : ClickSearch(c, m, r)
    \/ \E c \in AllCustoms, m \in AllMoods, r \in regions : PressReturn(c, m, r)

InitQuery == Init /\ PIL_AVAILABLE = TRUE /\ observing = FALSE

SpecQuery == InitQuery /\ [][NextQuery]_vars

\* ------------------------------------------------------------------ claims
\* the search callbacks scheduled for slot sid and not yet run
SearchCallbacks(sid) ==
    SelectSeq(after_queue,
              LAMBDA c : c.sid = sid /\ c.cb \in {"update_results", "fetch_failed"})

\* the listbox shows, line for line, the records rs
Shows(listbox, rs) ==
    /\ Len(listbox) = Len(rs)
    /\ \A i \in 1..Len(rs) : listbox[i] = ListLine(rs[i])

\* C1: when update_results runs with a response of N records the listbox then
\* holds N lines, line i built from record i of the response; and in every state
\* the listbox has as many lines as current_results has records, line i being
\* the line of current_results[i].
C1_ListboxShowsResults ==
    /\ [](Shows(song_listbox, current_results))
    /\ [][(/\ after_queue # <<>>
           /\ Head(after_queue).cb = "update_results"
           /\ lastOp' = "update_results")
          => Shows(song_listbox', Head(after_queue).results)]_vars

\* a response of two different records has been applied
C1_Witness ==
    /\ lastOp = "update_results"
    /\ Len(song_listbox) >= 2
    /\ song_listbox[1] # song_listbox[2]
    /\ \E sid \in SearchIds : searches[sid].pc # "free"

\* C6: every search issues exactly one HTTP request and gets exactly one UI
\* callback, update_results if the request succeeded and fetch_failed if it
\* raised: a search still fetching has issued no request and has no callback
\* scheduled, a search whose thread has ended has issued one request and has
\* exactly one callback scheduled, of the kind of its outcome, and no callback
\* remains for a search whose callback has run; and when the callback of a
\* failed search runs, fetch_failed runs and shows exactly one error dialog.
C6_OneRequestOneCallback ==
    /\ [](\A sid \in SearchIds :
            LET s == searches[sid]
                q == SearchCallbacks(sid)
            IN /\ s.pc = "free" => q = <<>>
               /\ s.pc = "fetching" => s.reqs = 0 /\ q = <<>>
               /\ s.pc = "queued" =>
                     /\ s.reqs = 1
                     /\ Len(q) = 1
                     /\ q[1].cb = IF s.outcome = "ok" THEN "update_results"
                                  ELSE "fetch_failed")
    /\ [][(/\ after_queue # <<>>
           /\ Head(after_queue).cb = "fetch_failed"
           /\ after_queue' = Tail(after_queue))
          => (lastOp' = "fetch_failed" /\ dialogs' = <<"Search failed">>)]_vars

\* C2: when the selected record has no previewUrl, or an empty one,
\* play_preview shows "No preview available", opens no tab and leaves the status
\* line as it was; play_preview opens a tab only when the selected record has a
\* non-empty previewUrl, and then that URL.
C2_NoPreviewNoBrowser ==
    [][lastOp' = "play_preview" =>
         /\ (HasSelectedItem /\ ~Truthy(current_results[selection].previewUrl)) =>
               /\ dialogs' = <<"No preview available">>
               /\ opened' = <<>>
               /\ status_var' = status_var
         /\ opened' # <<>> =>
               /\ HasSelectedItem
               /\ Truthy(current_results[selection].previewUrl)
               /\ opened' =
                      <<Tab("browser", current_results[selection].previewUrl, <<>>)>>
      ]_vars

\* play_preview has run on a selected record whose previewUrl is empty
C2_Witness ==
    /\ lastOp = "play_preview"
    /\ dialogs = <<"No preview available">>
    /\ HasSelectedItem
    /\ current_results[selection].previewUrl = ""

\* C9: open_itunes opens the selected record's trackViewUrl when it is
\* non-empty, else its collectionViewUrl when that is non-empty; with neither it
\* shows "No link", opens no tab and leaves the status line as it was.
C9_ItunesLinkPrecedence ==
    [][(lastOp' = "open_itunes" /\ HasSelectedItem) =>
         LET item == current_results[selection]
         IN IF Truthy(item.trackViewUrl)
            THEN opened' = <<Tab("browser", item.trackViewUrl, <<>>)>>
            ELSE IF Truthy(item.collectionViewUrl)
            THEN opened' = <<Tab("browser", item.collectionViewUrl, <<>>)>>
            ELSE /\ dialogs' = <<"No link">>
                 /\ opened' = <<>>
                 /\ status_var' = status_var
      ]_vars

\* open_itunes has opened the track page of a record that has both links
C9_Witness ==
    /\ lastOp = "open_itunes"
    /\ HasSelectedItem
    /\ Truthy(current_results[selection].collectionViewUrl)
    /\ opened = <<Tab("browser", current_results[selection].trackViewUrl, <<>>)>>

\* the steps that run on a background thread
BackgroundSteps == {"fetch_itunes", "load_artwork", "load_artwork except"}

\* the artwork URLs of the records of current_results
CurrentArtwork == {ArtworkOf(current_results[i]) : i \in 1..Len(current_results)}

\* C3: load_artwork issues at most one HTTP request for any artwork URL in a
\* session.
C3_FetchedAtMostOnce == \A u \in ArtUrls : artRequests[u] <= 1

\* C4: current_results and artwork_cache are written on the UI thread only: a
\* step of a background thread (fetch_itunes, load_artwork) assigns neither.
C4_WrittenOnUiThreadOnly == lastOp \in BackgroundSteps => lastWrites = {}

\* C5: every key of artwork_cache is the artwork URL of a record of
\* current_results.
C5_CacheKeysAreCurrent == artwork_cache \subseteq CurrentArtwork

\* C7: when load_artwork fails it shows no dialog, adds nothing to
\* artwork_cache, schedules no callback, and leaves the artwork label, the track
\* and artist texts and the status line as they were.
C7_FailedArtworkIsSkipped ==
    [][lastOp' = "load_artwork except" =>
         /\ dialogs' = <<>>
         /\ artwork_cache' = artwork_cache
         /\ after_queue' = after_queue
         /\ UNCHANGED <<artwork_label, track_var, artist_var, status_var>>
      ]_vars

\* the artwork request of the selected song has failed
C7_Witness ==
    /\ lastOp = "load_artwork except"
    /\ HasSelectedItem
    /\ artRequests[ArtworkOf(current_results[selection])] = 1
    /\ artwork_cache = {}
    /\ art_threads = <<>>

WithSuffix(t, suffix) == IF suffix = <<>> THEN t ELSE t \o <<" ">> \o suffix

\* the country code of each region of REGION_MAP
CountryOf(region) ==
    IF region \in {RBollywood, RPunjabi, RHaryanvi, RHindi, RRegionalIndia} THEN "IN"
    ELSE IF region = RKPop THEN "KR"
    ELSE "US"

\* the keyword of each region of REGION_MAP
SuffixOf(region) ==
    IF region \in {RAny, RInternational, RRegionalIndia} THEN <<>> ELSE region

\* C10: when on_get_songs starts a search, its country is the selected region's
\* country code; its term is the stripped custom text when there is one, else
\* "<mood lowercased> song", followed by a space and the region's keyword when
\* the region has one and by nothing otherwise; the term has no leading or
\* trailing whitespace.
C10_QueryFromInputs ==
    [][\A c \in AllCustoms, m \in AllMoods, r \in regions :
          (/\ Strip(c) # <<>> \/ Strip(m) # <<>>
           /\ status_var'.region = r
           /\ on_get_songs(c, m, r)) =>
             LET started == searches'[NextSlot]
                 base == IF Strip(c) # <<>>
                         THEN Strip(c)
                         ELSE Lower(Strip(m)) \o <<" ", "s", "o", "n", "g">>
             IN /\ started.pc = "fetching"
                /\ started.country = CountryOf(r)
                /\ started.term = WithSuffix(base, SuffixOf(r))
                /\ ~IsSpace(Head(started.term))
                /\ ~IsSpace(started.term[Len(started.term)])
      ]_vars

\* a mood search in a region without keyword, and a custom search, which takes
\* precedence over the mood, in a region with one, are in flight
C10_Witness ==
    /\ \E sid \in SearchIds :
          /\ searches[sid].term = <<"h", "a", "p", "p", "y", " ", "s", "o", "n", "g">>
          /\ searches[sid].country = "IN"
    /\ \E sid \in SearchIds :
          /\ searches[sid].term =
                 <<"l", "o", " ", "f", "i", " ", "K", "-", "P", "o", "p">>
          /\ searches[sid].country = "KR"

\* C11 as stated: on_get_songs with an empty or whitespace-only custom text and
\* no mood shows "No input", starts no search and launches no fetch, leaves the
\* status line, current_results, the listbox and artwork_cache as they were, and
\* the Search button is enabled afterwards.
C11_NoInputButtonEnabled ==
    [][\A c \in AllCustoms, m \in AllMoods, r \in regions :
          (/\ Strip(c) = <<>> /\ Strip(m) = <<>>
           /\ on_get_songs(c, m, r)) =>
             /\ dialogs' = <<"No input">>
             /\ UNCHANGED <<searches, after_queue, art_threads>>
             /\ UNCHANGED <<status_var, current_results, song_listbox, artwork_cache>>
             /\ btn_get' = "normal"
      ]_vars

\* C11, amended: on_get_songs with an empty or whitespace-only custom text and
\* no mood shows "No input", starts no search and launches no fetch, and leaves
\* the status line, current_results, the listbox, artwork_cache and the state of
\* the Search button as they were: the button stays enabled when it was
\* enabled, and stays disabled when a search is in flight.
C11_NoInputStartsNothing ==
    [][\A c \in AllCustoms, m \in AllMoods, r \in regions :
          (/\ Strip(c) = <<>> /\ Strip(m) = <<>>
           /\ on_get_songs(c, m, r)) =>
             /\ dialogs' = <<"No input">>
             /\ UNCHANGED <<searches, after_queue, art_threads>>
             /\ UNCHANGED <<status_var, current_results, song_listbox, artwork_cache>>
             /\ btn_get' = btn_get
      ]_vars

\* "No input" has been shown while a search is in flight and the button disabled
C11_Witness ==
    /\ lastOp = "on_get_songs"
    /\ dialogs = <<"No input">>
    /\ btn_get = "disabled"
    /\ \E sid \in SearchIds : searches[sid].pc = "fetching"

\* a search whose update_results / fetch_failed callback has not run yet
InFlight(sid) == searches[sid].pc \in {"fetching", "queued"}

\* C12: whenever a search is in flight, started with the button or with Return,
\* the Search button is disabled.
C12_DisabledWhileInFlight ==
    (\E sid \in SearchIds : InFlight(sid)) => btn_get = "disabled"

\* C13: once no search is in flight any more, the results shown are those of the
\* most recently started search that succeeded: an update_results that leaves
\* no search in flight and changes the results shown is never that of a search
\* started before one whose results have already been applied.
C13_LatestStartedWins ==
    [][(/\ after_queue # <<>>
        /\ Head(after_queue).cb = "update_results"
        /\ lastOp' = "update_results"
        /\ \A t \in SearchIds : searches'[t].pc = "free"
        /\ current_results' # current_results)
       => ~searches[Head(after_queue).sid].superseded
      ]_vars

\* C14: every state in which the Search button is disabled is eventually
\* followed by one in which it is enabled, given that every request terminates
\* and the event loop keeps running the scheduled callbacks.
C14_ButtonReenabled == (btn_get = "disabled") ~> (btn_get = "normal")

\* C15: whenever the artwork label shows an image, a song is selected and the
\* image is the one decoded from the selected record's artwork URL.
C15_ArtworkOfSelection ==
    artwork_label.image # "" =>
        /\ HasSelectedItem
        /\ artwork_label.image = ArtworkOf(current_results[selection])

\* C16: when _apply_artwork_if_selected(url) runs, it sets the artwork label to
\* the image of url, with no text, if a record of current_results is selected,
\* that record's artwork URL is url and url is in artwork_cache; if nothing is
\* selected, the selection is outside current_results, the selected record's
\* artwork URL differs from url or url is not in the cache, it leaves the label
\* as it was.
C16_LateArtworkOnlyForSelection ==
    [][(/\ after_queue # <<>>
        /\ Head(after_queue).cb = "apply_artwork"
        /\ lastOp' = "apply_artwork")
       => LET url == Head(after_queue).url
          IN IF /\ HasSelectedItem
                /\ ArtworkOf(current_results[selection]) = url
                /\ url \in artwork_cache
             THEN artwork_label' = [image |-> url, text |-> ""]
             ELSE artwork_label' = artwork_label
      ]_vars

\* the artwork of a song has arrived while another song, whose artwork is not
\* displayed, is selected
C16_Witness ==
    /\ lastOp = "apply_artwork"
    /\ HasSelectedItem
    /\ Truthy(ArtworkOf(current_results[selection]))
    /\ artwork_cache # {}
    /\ ArtworkOf(current_results[selection]) \notin artwork_cache
    /\ artwork_label.image = ""

\* the handlers that act on the selected song
SelectionHandlers == {"play_preview", "open_itunes", "open_youtube_spotify"}

\* what the handlers open for a record: its preview, its iTunes page, or the
\* YouTube and Spotify searches for its title and artist
TabsFor(item) ==
    {<<Tab("browser", item.previewUrl, <<>>)>>,
     <<Tab("browser", ItunesLink(item), <<>>)>>,
     <<Tab("youtube", "", <<Get(item, "trackName", ""), " ",
                            Get(item, "artistName", "")>>),
       Tab("spotify", "", <<Get(item, "trackName", ""), " ",
                            Get(item, "artistName", "")>>)>>}

\* C17: with no song selected, or a selection outside current_results, each of
\* play_preview, open_itunes and open_youtube_spotify shows "No selection",
\* opens no tab and leaves the status line and everything else as it was; and
\* whenever a tab is opened, a record of current_results is selected and the
\* tab is one of that record.
C17_NoSelectionNoTab ==
    [][/\ (lastOp' \in SelectionHandlers /\ ~HasSelectedItem) =>
             /\ dialogs' = <<"No selection">>
             /\ opened' = <<>>
             /\ UNCHANGED <<display, status_var, config, background>>
       /\ opened' # <<>> =>
             /\ lastOp' \in SelectionHandlers
             /\ HasSelectedItem
             /\ opened' \in TabsFor(current_results[selection])
             /\ UNCHANGED <<current_results, selection>>
      ]_vars

\* a handler has shown "No selection" with songs listed and none selected
C17_Witness ==
    /\ lastOp \in SelectionHandlers
    /\ dialogs = <<"No selection">>
    /\ current_results # <<>>
    /\ selection = 0
    /\ opened = <<>>

====
